---- MODULE Spec2Model ----
(***************************************************************************)
(* Model of src/src/data_processing/semantic_filter_elderly.py: the        *)
(* resumable classification pipeline run(input_path, output_path,          *)
(* min_conf) with its keyword prefilter, its retry loop around the chat    *)
(* API, the buffered append to the output CSV and the confident subset.    *)
(*                                                                         *)
(* Text is modelled as a sequence of one-character strings; a CJK          *)
(* character is written by its code point ("U+5C81").  Confidences are     *)
(* integers in hundredths (30 is 0.3).                                     *)
(*                                                                         *)
(* Spec has the runs on the default output file name, ended by reaching    *)
(* the end, by an exception or by a kill between two lines of the file.    *)
(* SpecTorn adds the death of the process in the middle of a write,        *)
(* SpecAnyPath the output file named like the subset file, SpecTexts the   *)
(* inputs whose titles carry an age or a kinship term, SpecAnyConfidence   *)
(* the replies with a confidence outside 0..1.                             *)
(***************************************************************************)
EXTENDS Integers, Sequences, FiniteSets, TLC

\* ---------------------------------------------------------------- bounds
NRows == 2          \* largest number of records of the input CSV
MaxRuns == 2        \* number of times the pipeline is started

\* ------------------------------------------------------- text primitives
UpperAlpha ==
    <<"A", "B", "C", "D", "E", "F", "G", "H", "I", "J", "K", "L", "M",
      "N", "O", "P", "Q", "R", "S", "T", "U", "V", "W", "X", "Y", "Z">>

LowerAlpha ==
    <<"a", "b", "c", "d", "e", "f", "g", "h", "i", "j", "k", "l", "m",
      "n", "o", "p", "q", "r", "s", "t", "u", "v", "w", "x", "y", "z">>

\* str.lower() on one character
LowerChar(c) ==
    IF \E k \in 1..26 : UpperAlpha[k] = c
    THEN LowerAlpha[CHOOSE k \in 1..26 : UpperAlpha[k] = c]
    ELSE c

\* str.lower()
lower(s) == [k \in 1..Len(s) |-> LowerChar(s[k])]

Whitespace == {" ", "\n", "\t", "\r"}

RECURSIVE lstrip(_)
lstrip(s) ==
    IF s # <<>> /\ Head(s) \in Whitespace THEN lstrip(Tail(s)) ELSE s

RECURSIVE rstrip(_)
rstrip(s) ==
    IF s # <<>> /\ s[Len(s)] \in Whitespace
    THEN rstrip(SubSeq(s, 1, Len(s) - 1))
    ELSE s

\* str.strip()
strip(s) == rstrip(lstrip(s))

\* the literal k occurs in s at position p
LitAt(s, p, k) ==
    /\ p >= 1
    /\ p + Len(k) - 1 <= Len(s)
    /\ SubSeq(s, p, p + Len(k) - 1) = k

\* Python's  k in s  for strings
Contains(s, k) == \E p \in 1..(Len(s) + 1) : LitAt(s, p, k)

\* the characters of the strings the model uses
Chars(s) ==
    CASE s = "car trouble" -> <<"c", "a", "r", " ", "t", "r", "o", "u", "b", "l", "e">>
      [] s = "my car broke down" -> <<"m", "y", " ", "c", "a", "r", " ", "b", "r", "o", "k", "e", " ", "d", "o", "w", "n">>
      [] s = "Grandma fell" -> <<"G", "r", "a", "n", "d", "m", "a", " ", "f", "e", "l", "l">>
      [] s = "nan" -> <<"n", "a", "n">>
      [] s = "My grandmother, 82" -> <<"M", "y", " ", "g", "r", "a", "n", "d", "m", "o", "t", "h", "e", "r", ",", " ", "8", "2">>
      [] s = "..." -> <<".", ".", ".">>
      [] s = "my 82-year-old mom" -> <<"m", "y", " ", "8", "2", "-", "y", "e", "a", "r", "-", "o", "l", "d", " ", "m", "o", "m">>
      [] s = "she fell" -> <<"s", "h", "e", " ", "f", "e", "l", "l">>
      [] s = "65-year-old man" -> <<"6", "5", "-", "y", "e", "a", "r", "-", "o", "l", "d", " ", "m", "a", "n">>
      [] s = "82 <U+5C81>" -> <<"8", "2", " ", "U+5C81">>
      [] s = "\\b6\\d\\old\\b" -> <<"\\", "b", "6", "\\", "d", "\\", "o", "l", "d", "\\", "b">>
      [] s = "" -> <<>>

\* ------------------------------------------------------------- prefilter
EN_HINTS ==
    << <<"e", "l", "d", "e", "r", "l", "y">>,
       <<"s", "e", "n", "i", "o", "r">>,
       <<"o", "l", "d", "e", "r", " ", "a", "d", "u", "l", "t">>,
       <<"g", "r", "a", "n", "d", "m", "a">>,
       <<"g", "r", "a", "n", "d", "p", "a">>,
       <<"a", "g", "i", "n", "g", " ", "p", "a", "r", "e", "n", "t">>,
       <<"n", "u", "r", "s", "i", "n", "g", " ", "h", "o", "m", "e">>,
       <<"r", "e", "t", "i", "r", "e", "m", "e", "n", "t", " ", "h", "o", "m", "e">>,
       <<"a", "s", "s", "i", "s", "t", "e", "d", " ", "l", "i", "v", "i", "n", "g">>,
       <<"d", "e", "m", "e", "n", "t", "i", "a">>,
       <<"a", "l", "z", "h", "e", "i", "m", "e", "r">>,
       <<"p", "a", "r", "k", "i", "n", "s", "o", "n">>,
       <<"6", "5", "-", "y", "e", "a", "r", "-", "o", "l", "d">>,
       <<"7", "0", "-", "y", "e", "a", "r", "-", "o", "l", "d">> >>

CN_HINTS ==
    << <<"U+8001", "U+4EBA">>,
       <<"U+8001", "U+5E74">>,
       <<"U+957F", "U+8005">>,
       <<"U+72EC", "U+5C45", "U+8001", "U+4EBA">>,
       <<"U+7A7A", "U+5DE2", "U+8001", "U+4EBA">>,
       <<"U+517B", "U+8001", "U+9662">>,
       <<"U+8001", "U+4EBA", "U+9662">>,
       <<"U+62A4", "U+7406", "U+9662">>,
       <<"U+8D61", "U+517B">>,
       <<"U+770B", "U+62A4">>,
       <<"U+7167", "U+62A4">>,
       <<"U+5931", "U+667A">>,
       <<"U+963F", "U+5C14", "U+8328", "U+6D77", "U+9ED8">>,
       <<"U+5E15", "U+91D1", "U+68EE">>,
       <<"U+9AD8", "U+9F84">>,
       <<"U+7237", "U+7237">>,
       <<"U+5976", "U+5976">>,
       <<"U+5916", "U+516C">>,
       <<"U+5916", "U+5A46">>,
       <<"U+7956", "U+7236">>,
       <<"U+7956", "U+6BCD">>,
       <<"U+5C81">> >>

\* The pattern text of both age regexes is a raw string with doubled
\* backslashes, so every "\\" of it matches one literal backslash and the
\* letter after it is an ordinary character:
\*   \\b ([6-9] \\d) \\ s* (?:year|yrs|yo|y/o)? [- ]? old \\b
AgeHead == {<<c, "\\", "d", "\\">> : c \in {"6", "7", "8", "9"}}

\* positions reached after the run  s*  that starts at position p
AfterSRun(s, p) ==
    {q \in p..(Len(s) + 1) : \A r \in p..(q - 1) : s[r] = "s"}

\* positions reached after an optional occurrence of one of the literals
AfterOptional(s, p, lits) ==
    {p} \cup {p + Len(k) : k \in {l \in lits : LitAt(s, p, l)}}

AgeUnits ==
    {<<"y", "e", "a", "r">>, <<"y", "r", "s">>, <<"y", "o">>, <<"y", "/", "o">>}

\* re.search of the English age pattern
SearchAgeEN(s) ==
    \E p \in 1..(Len(s) + 1) :
        /\ LitAt(s, p, <<"\\", "b">>)
        /\ \E h \in AgeHead : LitAt(s, p + 2, h)
        /\ \E q \in AfterSRun(s, p + 6) :
           \E u \in AfterOptional(s, q, AgeUnits) :
           \E v \in AfterOptional(s, u, {<<"-">>, <<" ">>}) :
               LitAt(s, v, <<"o", "l", "d", "\\", "b">>)

\* re.search of the CJK age pattern  ([6-9] \\d) \\ s* U+5C81
SearchAgeCN(s) ==
    \E p \in 1..(Len(s) + 1) :
        /\ \E h \in AgeHead : LitAt(s, p, h)
        /\ \E q \in AfterSRun(s, p + 4) : LitAt(s, q, <<"U+5C81">>)

maybe_elderly(text) ==
    LET low == lower(text) IN
    \/ \E k \in 1..Len(EN_HINTS) : Contains(low, EN_HINTS[k])
    \/ \E k \in 1..Len(CN_HINTS) : Contains(text, CN_HINTS[k])
    \/ SearchAgeEN(low)
    \/ SearchAgeCN(text)

\* ------------------------------------------------------------ input data
\* a cell that pd.read_csv read as missing (float nan)
NaN == "<float nan>"

\* a key that a JSON object does not have
Absent == "<absent>"

\* the records an input CSV is built from: title and content cells
Records ==
    { [title |-> "car trouble", content |-> "my car broke down"],
      [title |-> "Grandma fell", content |-> NaN] }

\* records with an age or a kinship term in the title: a grandparent with a
\* bare age, an age outside the hint list, an age of the hint list, a CJK
\* age, and a text the English age pattern matches as it is written
TextRecords ==
    { [title |-> "My grandmother, 82", content |-> "..."],
      [title |-> "my 82-year-old mom", content |-> "she fell"],
      [title |-> "65-year-old man", content |-> NaN],
      [title |-> "82 <U+5C81>", content |-> NaN],
      [title |-> "\\b6\\d\\old\\b", content |-> NaN] }

\* the input CSVs of one such record
TextFrames == [1..1 -> TextRecords]

\* the inputs: every CSV of at most NRows records
DataFrames == UNION {[1..m -> Records] : m \in 0..NRows}

\* df.iterrows() yields the RangeIndex 0..len(df)-1 as i
RowIdsOf_df(frame) == 0..(Len(frame) - 1)

\* row i of the frame
Row(frame, id) == frame[id + 1]

\* default_io_paths(): the name of the default output file
DefaultName == "elderly_llm_filtered.csv"

\* line 258: the name of the subset file, in the directory of output_path
SubsetName == "elderly_llm_filtered_confident.csv"

\* names --output may end in
OutputNames == {DefaultName, SubsetName}

\* the thresholds --min-confidence is drawn from (0.6 is the default)
MinConfs == {60, 92}

\* str(row.get(col, "") or ""): nan is truthy, so a missing cell gives "nan"
PyStr(cell) == IF cell = NaN THEN "nan" ELSE cell

\* text = f"{title}\n\n{content}".strip()
TextOf(title, content) ==
    strip(Chars(title) \o <<"\n", "\n">> \o Chars(content))

\* ---------------------------------------------------------- output lines
Header ==
    [kind |-> "header", row_id |-> -1, label |-> "label", confidence |-> -1,
     reason |-> "reason", title |-> "title", content |-> "content"]

\* variant: the prefilter branch gives the reason "heuristic negative"
PrefilterNegativeRowHeuristic(id, title, content) ==
    [kind |-> "row", row_id |-> id, label |-> "not_elderly", confidence |-> 30,
     reason |-> "heuristic negative", title |-> title, content |-> content]

\* variant: the prefilter branch labels the row uncertain with confidence 0
PrefilterNegativeRowUncertain(id, title, content) ==
    [kind |-> "row", row_id |-> id, label |-> "uncertain", confidence |-> 0,
     reason |-> "keyword prefilter negative", title |-> title, content |-> content]

\* out = {...} of the prefilter branch
PrefilterNegativeRow(id, title, content) ==
    [kind |-> "row", row_id |-> id, label |-> "not_elderly", confidence |-> 30,
     reason |-> "keyword prefilter negative", title |-> title, content |-> content]

\* out = {...} of the for-else branch
ApiFailedRow(id, title, content) ==
    [kind |-> "row", row_id |-> id, label |-> "uncertain", confidence |-> 0,
     reason |-> "API failed", title |-> title, content |-> content]

\* ------------------------------------------------------------ torn lines
\* What the file holds of a data line when the process dies while f's
\* buffer is being written: the first `fields` fields of the line, cut
\* before the next comma, without the line end.
Torn(row, fields) ==
    [kind |-> "torn", row_id |-> row.row_id, fields |-> fields,
     label |-> row.label, confidence |-> row.confidence, reason |-> row.reason,
     title |-> row.title, content |-> row.content]

\* the last line of the file has no line end
EndsTorn(lines) == lines # <<>> /\ lines[Len(lines)].kind = "torn"

\* open("a") writes at the end of the file: the next line continues a torn
\* one.  After a bare row_id the two ids (of one digit each, NRows being
\* small) run together into one number and the line has six fields again;
\* after more fields the line has more than six, the first one still the
\* row_id of the torn row.
Glue(torn, row) ==
    IF torn.fields = 1
    THEN [row EXCEPT !.row_id = 10 * torn.row_id + row.row_id]
    ELSE [kind |-> "glued", row_id |-> torn.row_id, fields |-> torn.fields + 5,
          label |-> torn.label, confidence |-> torn.confidence, reason |-> torn.reason,
          title |-> torn.title, content |-> torn.content]

\* the file after more lines are written at its end
AppendLines(lines, more) ==
    IF EndsTorn(lines) /\ more # <<>>
    THEN SubSeq(lines, 1, Len(lines) - 1) \o <<Glue(lines[Len(lines)], Head(more))>> \o Tail(more)
    ELSE lines \o more

\* ------------------------------------------------------- classifier reply
\* What one call of call_chat_json can do.  kind tells how far the reply
\* gets through lines 221-223; an object reply carries the three keys, each
\* possibly absent, the confidence as a JSON number (num), as a JSON string
\* that spells a number (numstr) or as another JSON string (str).
FailedReply(kind) ==
    [kind |-> kind, label |-> Absent, confidence |-> [t |-> "absent"], reason |-> Absent]

ObjectReply(label, confidence, reason) ==
    [kind |-> "object", label |-> label, confidence |-> confidence, reason |-> reason]

Replies ==
    { FailedReply("urlopen_error"),        \* network failure, timeout, non-2xx
      FailedReply("body_not_json"),        \* json.loads(raw) raises
      FailedReply("no_choices"),           \* resp["choices"][0] raises
      FailedReply("content_not_json"),     \* json.loads(content_json) raises
      FailedReply("content_not_object"),   \* parsed.get raises
      ObjectReply("elderly", [t |-> "str", s |-> "high"], "r"),
      ObjectReply("elderly", [t |-> "num", n |-> 92], "r"),
      ObjectReply("elderly", [t |-> "num", n |-> 60], "r"),
      ObjectReply("not_elderly", [t |-> "num", n |-> 92], "r"),
      ObjectReply("elderly", [t |-> "numstr", n |-> 60], "r"),
      ObjectReply("maybe", [t |-> "num", n |-> 92], "r"),
      ObjectReply(Absent, [t |-> "absent"], Absent) }

\* object replies whose confidence is a JSON number outside 0..1: 1.5, -0.2
RangeReplies ==
    { ObjectReply("elderly", [t |-> "num", n |-> 150], "r"),
      ObjectReply("elderly", [t |-> "num", n |-> -20], "r") }

\* dict.get(key, default)
Get(value, default) == IF value = Absent THEN default ELSE value

\* float(parsed.get("confidence", 0)) returns
FloatOk(c) == c.t \in {"num", "numstr", "absent"}

Float(c) == IF c.t = "absent" THEN 0 ELSE c.n

\* the try body of one attempt runs to its break
Usable(reply) == reply.kind = "object" /\ FloatOk(reply.confidence)

\* variant: a label outside the three values is replaced by uncertain
ParsedRowCoerced(id, reply, title, content) ==
    [kind |-> "row", row_id |-> id,
     label |-> IF reply.label \in {"elderly", "not_elderly", "uncertain"}
               THEN reply.label ELSE "uncertain",
     confidence |-> Float(reply.confidence), reason |-> Get(reply.reason, ""),
     title |-> title, content |-> content]

\* out = {...} of the try body
ParsedRow(id, reply, title, content) ==
    [kind |-> "row", row_id |-> id, label |-> Get(reply.label, "uncertain"),
     confidence |-> Float(reply.confidence), reason |-> Get(reply.reason, ""),
     title |-> title, content |-> content]

\* variant: for attempt in range(4)
MaxAttemptsFour == 5 - 1

\* for attempt in range(5)
MaxAttempts == 5

\* ------------------------------------------------------- checkpoint scan
\* int(row["row_id"]) of every line DictReader yields: a line cut short
\* yields its row_id like a whole one (the missing fields are None), a line
\* with too many fields as well (the surplus goes under the key None)
RECURSIVE RowIdsOf(_)
RowIdsOf(lines) ==
    IF lines = <<>> THEN {}
    ELSE (IF Head(lines).kind \in {"row", "torn", "glued"} THEN {Head(lines).row_id} ELSE {})
         \cup RowIdsOf(Tail(lines))

\* variant: the scan stops one line short of the end of the file
ScanDoneShort(file) ==
    IF ~file.exists \/ Len(file.lines) < 2 THEN {}
    ELSE RowIdsOf(SubSeq(file.lines, 2, Len(file.lines) - 1))

\* csv.DictReader takes the first line as the field names; int(row["row_id"])
\* raises for a repeated header line and, when the first line is not the
\* header, for every row (no "row_id" key)
ScanDone(file) ==
    IF ~file.exists \/ file.lines = <<>> THEN {}
    ELSE IF Head(file.lines).kind = "header" THEN RowIdsOf(Tail(file.lines))
    ELSE {}

\* ------------------------------------------------------ confident subset
NA_VALUES ==
    {"", "#N/A", "#N/A N/A", "#NA", "-1.#IND", "-1.#QNAN", "-NaN", "-nan",
     "1.#IND", "1.#QNAN", "<NA>", "N/A", "NA", "NULL", "NaN", "None", "n/a",
     "nan", "null"}

\* pd.read_csv on one text cell
ReadCell(s) == IF s \in NA_VALUES THEN NaN ELSE s

\* DataFrame.to_csv on one text cell
WriteCell(v) == IF v = NaN THEN "" ELSE v

\* one data line as pd.read_csv reads it; the fields a short last line
\* lacks are NaN, and a NaN confidence (written -1 here, as in Header) is
\* below every threshold
ReadRow(l) ==
    IF l.kind = "torn"
    THEN [kind |-> "row", row_id |-> l.row_id,
          label |-> IF l.fields >= 2 THEN ReadCell(l.label) ELSE NaN,
          confidence |-> IF l.fields >= 3 THEN l.confidence ELSE -1,
          reason |-> IF l.fields >= 4 THEN ReadCell(l.reason) ELSE NaN,
          title |-> IF l.fields >= 5 THEN ReadCell(l.title) ELSE NaN,
          content |-> NaN]
    ELSE [l EXCEPT !.label = ReadCell(l.label), !.reason = ReadCell(l.reason),
                   !.title = ReadCell(l.title), !.content = ReadCell(l.content)]

\* one frame row as to_csv writes it
WriteRowCsv(r) ==
    [r EXCEPT !.label = WriteCell(r.label), !.reason = WriteCell(r.reason),
              !.title = WriteCell(r.title), !.content = WriteCell(r.content)]

\* pd.read_csv(output_path) and the two column comparisons raise nothing:
\* the file is not empty, has the header, and no line has more fields than
\* the line before it (a short line is accepted)
ReadCsvOk(lines) ==
    /\ lines # <<>>
    /\ Head(lines).kind = "header"
    /\ \A k \in 2..Len(lines) : lines[k].kind \in {"row", "torn"}

\* pd.read_csv(output_path): the data rows of the frame
ReadCsv(lines) == [k \in 1..(Len(lines) - 1) |-> ReadRow(lines[k + 1])]

\* variant: the comparison with the threshold is strict
SelectedStrict(r, threshold) == r.label = "elderly" /\ r.confidence > threshold

\* (all_df["label"] == "elderly") & (all_df["confidence"] >= min_conf)
Selected(r, threshold) == r.label = "elderly" /\ r.confidence >= threshold

RECURSIVE Filter(_, _)
Filter(rows, threshold) ==
    IF rows = <<>> THEN <<>>
    ELSE (IF Selected(Head(rows), threshold) THEN <<Head(rows)>> ELSE <<>>)
         \o Filter(Tail(rows), threshold)

\* subset.to_csv(subset_path, index=False)
ToCsv(rows) == <<Header>> \o [k \in 1..Len(rows) |-> WriteRowCsv(rows[k])]

\* ------------------------------------------------------------------ state
VARIABLES
    df,            \* the input CSV as read by pd.read_csv(input_path)
    output_name,   \* output_path.name
    api_key,       \* API_KEY is set, for the current run
    has_cols,      \* the input has the title and content columns, current run
    min_conf,      \* the threshold, from the point where run() first reads it
    disk,          \* output_path as another reader sees it: exists, lines
    buf,           \* lines written to f that the open file still buffers
    subset,        \* subset_path, when it is another file than output_path
    pc,            \* where the process is
    i,             \* index of the row the loop is at
    attempt,       \* attempt of the retry loop
    wait,          \* wait of the except block, for record i
    done_ids,      \* row ids found by the scan at the start of the run
    writer,        \* writer is not None
    out,           \* the row built for record i
    runs,          \* times the pipeline has been started
    how,           \* branch that built out: prefilter, parsed, exhausted
    calls,         \* API calls made for record i in this run
    nfail,         \* failed attempts for record i in this run
    lastReply,     \* reply of the latest API call
    unusable,      \* a reply for record i arrived in this run and raised
    entered,       \* ids whose prefilter was evaluated in this run
    negative,      \* ids for which the prefilter returned False in this run
    called,        \* ids an API call was made for in this run
    wrote,         \* ids whose writerow has returned in this run
    exhausted,     \* ids whose retry loop ran to its else branch in this run
    committed,     \* ids whose writerow returned in an earlier run
    startDisk,     \* disk when the current run started
    startSubset,   \* subset when the current run started
    prevDone       \* the run before the current one reached its end

vars ==
    <<df, output_name, api_key, has_cols, min_conf, disk, buf, subset, pc, i, attempt, wait,
      done_ids, writer, out, runs, how, calls, nfail, lastReply, unusable, entered,
      negative, called, wrote, exhausted, committed, startDisk, startSubset, prevDone>>

inputs == <<df, output_name>>
locals == <<i, attempt, wait, done_ids, writer, out>>
perRow == <<how, calls, nfail, lastReply, unusable>>
perRun == <<runs, api_key, has_cols, committed, startDisk, startSubset, prevDone>>

Running == {"loop", "call", "sleep", "commit", "subset"}
Stopped == {"idle", "done", "fatal", "error", "interrupted", "killed"}

NoFile == [exists |-> FALSE, lines |-> <<>>]

NoRow == [kind |-> "none"]

\* the state before the first run, for the inputs and the output file
\* names the caller may pass
Start(frames, names) ==
    /\ df \in frames
    /\ output_name \in names
    /\ api_key = TRUE
    /\ has_cols = TRUE
    /\ min_conf = 60
    /\ disk = NoFile
    /\ buf = <<>>
    /\ subset = NoFile
    /\ pc = "idle"
    /\ i = 0
    /\ attempt = 0
    /\ wait = 0
    /\ done_ids = {}
    /\ writer = FALSE
    /\ out = NoRow
    /\ runs = 0
    /\ how = "none"
    /\ calls = 0
    /\ nfail = 0
    /\ lastReply = FailedReply("none")
    /\ unusable = FALSE
    /\ entered = {}
    /\ negative = {}
    /\ called = {}
    /\ wrote = {}
    /\ exhausted = {}
    /\ committed = {}
    /\ startDisk = NoFile
    /\ startSubset = NoFile
    /\ prevDone = FALSE

\* --output left at its default, <base>/elderly_llm_filtered.csv
Init == Start(DataFrames, {DefaultName})

\* -------------------------------------------------------------- run()
\* variant: the column check is missing
FatalKeyOnly(key, cols) == ~key

\* lines 171 and 176: either check raises SystemExit
Fatal(key, cols) == ~key \/ ~cols

\* lines 171-191: the two fatal checks, the checkpoint scan, open("a")
RunStart(key, cols) ==
    /\ pc \in Stopped
    /\ runs < MaxRuns
    /\ runs' = runs + 1
    /\ api_key' = key
    /\ has_cols' = cols
    /\ committed' = committed \cup wrote
    /\ startDisk' = disk
    /\ startSubset' = subset
    /\ prevDone' = (pc = "done")
    /\ entered' = {}
    /\ negative' = {}
    /\ called' = {}
    /\ wrote' = {}
    /\ exhausted' = {}
    /\ how' = "none"
    /\ calls' = 0
    /\ nfail' = 0
    /\ lastReply' = FailedReply("none")
    /\ unusable' = FALSE
    /\ i' = 0
    /\ attempt' = 0
    /\ wait' = 0
    /\ writer' = FALSE
    /\ out' = NoRow
    /\ buf' = <<>>
    /\ IF Fatal(key, cols)
       THEN /\ pc' = "fatal"
            /\ done_ids' = {}
            /\ UNCHANGED disk
       ELSE /\ pc' = "loop"
            /\ done_ids' = ScanDone(disk)
            /\ disk' = [disk EXCEPT !.exists = TRUE]
    /\ UNCHANGED <<inputs, subset, min_conf>>

\* variant: closing f drops what it buffers
ClosedUnflushed(file, pending) == file

\* closing f writes what it buffers
Closed(file, pending) == [file EXCEPT !.lines = AppendLines(file.lines, pending)]

\* lines 194-217: the loop head, the skip of a done row, the prefilter;
\* leaving the loop leaves the with block, which closes f
LoopNext ==
    /\ pc = "loop"
    /\ IF i >= Len(df)
       THEN /\ disk' = Closed(disk, buf)
            /\ buf' = <<>>
            /\ pc' = "subset"
            /\ UNCHANGED <<i, attempt, out, how, entered, negative>>
       ELSE IF i \in done_ids
       THEN /\ i' = i + 1
            /\ UNCHANGED <<disk, buf, pc, attempt, out, how, entered, negative>>
       ELSE LET title == PyStr(Row(df, i).title)
                content == PyStr(Row(df, i).content)
                text == TextOf(title, content)
            IN  /\ entered' = entered \cup {i}
                /\ IF ~maybe_elderly(text)
                   THEN /\ out' = PrefilterNegativeRow(i, title, content)
                        /\ how' = "prefilter"
                        /\ negative' = negative \cup {i}
                        /\ pc' = "commit"
                        /\ UNCHANGED attempt
                   ELSE /\ attempt' = 0
                        /\ pc' = "call"
                        /\ UNCHANGED <<out, how, negative>>
                /\ UNCHANGED <<i, disk, buf>>
    /\ UNCHANGED <<inputs, subset, min_conf, wait, done_ids, writer, calls, nfail,
                   lastReply, unusable, called, wrote, exhausted, perRun>>

\* variant: except urllib.error.URLError instead of except Exception; any
\* other exception leaves the with block and ends the run
AttemptCatchesURLError(reply) ==
    /\ pc = "call"
    /\ calls' = calls + 1
    /\ called' = called \cup {i}
    /\ IF Usable(reply)
       THEN /\ lastReply' = reply
            /\ out' = ParsedRow(i, reply, PyStr(Row(df, i).title), PyStr(Row(df, i).content))
            /\ how' = "parsed"
            /\ pc' = "commit"
            /\ UNCHANGED <<nfail, wait, unusable, disk, buf>>
       ELSE IF reply.kind = "urlopen_error"
       THEN /\ nfail' = nfail + 1
            /\ wait' = 2 ^ attempt
            /\ pc' = "sleep"
            /\ UNCHANGED <<out, how, lastReply, unusable, disk, buf>>
       ELSE /\ disk' = Closed(disk, buf)
            /\ buf' = <<>>
            /\ unusable' = TRUE
            /\ pc' = "error"
            /\ UNCHANGED <<nfail, wait, out, how, lastReply>>
    /\ UNCHANGED <<inputs, subset, min_conf, i, attempt, done_ids, writer,
                   entered, negative, wrote, exhausted, perRun>>

\* lines 220-233: one attempt, its reply either usable or an exception
Attempt(reply) ==
    /\ pc = "call"
    /\ calls' = calls + 1
    /\ called' = called \cup {i}
    /\ IF Usable(reply)
       THEN /\ lastReply' = reply
            /\ out' = ParsedRow(i, reply, PyStr(Row(df, i).title), PyStr(Row(df, i).content))
            /\ how' = "parsed"
            /\ pc' = "commit"
            /\ UNCHANGED <<nfail, wait, unusable>>
       ELSE /\ nfail' = nfail + 1
            /\ wait' = 2 ^ attempt
            /\ unusable' = (unusable \/ reply.kind # "urlopen_error")
            /\ pc' = "sleep"
            /\ UNCHANGED <<out, how, lastReply>>
    /\ UNCHANGED <<inputs, disk, buf, subset, min_conf, i, attempt, done_ids, writer,
                   entered, negative, wrote, exhausted, perRun>>

\* variant: the failure of the last attempt is raised instead of handled
BackoffRaises ==
    /\ pc = "sleep"
    /\ attempt' = attempt + 1
    /\ IF attempt + 1 < MaxAttempts
       THEN /\ pc' = "call"
            /\ UNCHANGED <<disk, buf, exhausted>>
       ELSE /\ disk' = [disk EXCEPT !.lines = disk.lines \o buf]
            /\ buf' = <<>>
            /\ exhausted' = exhausted \cup {i}
            /\ pc' = "error"
    /\ UNCHANGED <<inputs, subset, min_conf, i, wait, done_ids, writer, out, how,
                   calls, nfail, lastReply, unusable, entered, negative, called, wrote, perRun>>

\* lines 234-246: time.sleep(2 ** attempt), then the next attempt or, the
\* range exhausted, the else branch of the for
Backoff ==
    /\ pc = "sleep"
    /\ attempt' = attempt + 1
    /\ IF attempt + 1 < MaxAttempts
       THEN /\ pc' = "call"
            /\ UNCHANGED <<out, how, exhausted>>
       ELSE /\ out' = ApiFailedRow(i, PyStr(Row(df, i).title), PyStr(Row(df, i).content))
            /\ how' = "exhausted"
            /\ exhausted' = exhausted \cup {i}
            /\ pc' = "commit"
    /\ UNCHANGED <<inputs, disk, buf, subset, min_conf, i, wait, done_ids, writer,
                   calls, nfail, lastReply, unusable, entered, negative, called, wrote, perRun>>

\* variant: the header is written at the first write of every run
NeedsHeaderEachRun(w, file) == ~w

\* lines 249-252: writer is None and output_path.stat().st_size == 0
NeedsHeader(w, file) == ~w /\ file.lines = <<>>

\* variant: the row is put ahead of the lines f still buffers
PendingRowFirst(buffered, head, row) == head \o <<row>> \o buffered

\* lines 252-253: writeheader and writerow write to f after what f buffers
Pending(buffered, head, row) == buffered \o head \o <<row>>

\* lines 249-253: the header when the file is empty at the first write of the
\* run, then writerow; the write may make f pass its oldest lines to the file
WriteRow(spill) ==
    /\ pc = "commit"
    /\ LET head == IF NeedsHeader(writer, disk) THEN <<Header>> ELSE <<>>
           pending == Pending(buf, head, out)
       IN  /\ spill \in 0..Len(pending)
           /\ disk' = [disk EXCEPT !.lines = AppendLines(disk.lines, SubSeq(pending, 1, spill))]
           /\ buf' = SubSeq(pending, spill + 1, Len(pending))
    /\ writer' = TRUE
    /\ wrote' = wrote \cup {i}
    /\ i' = i + 1
    /\ pc' = "loop"
    /\ out' = NoRow
    /\ how' = "none"
    /\ calls' = 0
    /\ nfail' = 0
    /\ lastReply' = FailedReply("none")
    /\ unusable' = FALSE
    /\ attempt' = 0
    /\ wait' = 0
    /\ UNCHANGED <<inputs, subset, min_conf, done_ids, entered, negative, called, exhausted, perRun>>

\* lines 256-259: the subset, recomputed from the whole output file; the
\* parameter min_conf is read here for the first time
WriteSubset(threshold) ==
    /\ pc = "subset"
    /\ min_conf' = threshold
    /\ IF ReadCsvOk(disk.lines)
       THEN LET written == [exists |-> TRUE,
                            lines |-> ToCsv(Filter(ReadCsv(disk.lines), threshold))]
            IN  /\ IF output_name = SubsetName
                   THEN disk' = written /\ UNCHANGED subset
                   ELSE subset' = written /\ UNCHANGED disk
                /\ pc' = "done"
       ELSE /\ pc' = "error"
            /\ UNCHANGED <<subset, disk>>
    /\ UNCHANGED <<inputs, buf, locals, perRow, entered, negative, called, wrote, exhausted, perRun>>

\* ------------------------------------------------------------ environment
\* an exception raised in the with block (Ctrl-C): f is closed on the way out
KeyboardInterrupt ==
    /\ pc \in Running
    /\ disk' = Closed(disk, buf)
    /\ buf' = <<>>
    /\ pc' = "interrupted"
    /\ UNCHANGED <<inputs, subset, min_conf, locals, perRow, entered, negative, called, wrote, exhausted, perRun>>

\* the process is killed (SIGKILL, power loss): what f buffers is lost
Kill ==
    /\ pc \in Running
    /\ buf' = <<>>
    /\ pc' = "killed"
    /\ UNCHANGED <<inputs, disk, subset, min_conf, locals, perRow, entered, negative, called, wrote, exhausted, perRun>>

\* the process dies while f's buffer is being written to the file, in
\* writerow (line 253) or on leaving the with block: the first `whole`
\* buffered lines reach the file and the next one as far as its first
\* `fields` fields.  The cuts taken are those at the end of a field of a data
\* line, whose reading by csv and pandas is known from their documentation:
\* not a cut in the header, not a second cut in one line, and a first data
\* line is cut after its row_id only.
KillTorn(whole, fields) ==
    /\ pc = "commit" \/ (pc = "loop" /\ i >= Len(df))
    /\ LET head == IF pc = "commit" /\ NeedsHeader(writer, disk) THEN <<Header>> ELSE <<>>
           pending == IF pc = "commit" THEN Pending(buf, head, out) ELSE buf
       IN  /\ whole < Len(pending)
           /\ pending[whole + 1].kind = "row"
           /\ whole > 0 \/ ~EndsTorn(disk.lines)
           /\ fields = 1 \/ Len(disk.lines) + whole >= 2
           /\ disk' = [disk EXCEPT !.lines =
                         AppendLines(disk.lines, SubSeq(pending, 1, whole))
                             \o <<Torn(pending[whole + 1], fields)>>]
    /\ buf' = <<>>
    /\ pc' = "killed"
    /\ UNCHANGED <<inputs, subset, min_conf, locals, perRow, entered, negative, called, wrote, exhausted, perRun>>

Next ==
    \/ \E key \in BOOLEAN, cols \in BOOLEAN : RunStart(key, cols)
    \/ LoopNext
    \/ \E reply \in Replies : Attempt(reply)
    \/ Backoff
    \/ \E spill \in 0..(NRows + 1) : WriteRow(spill)
    \/ \E threshold \in MinConfs : WriteSubset(threshold)
    \/ KeyboardInterrupt
    \/ Kill

Spec == Init /\ [][Next]_vars

\* the runs of Spec and those ended in the middle of a write to the file
NextTorn ==
    \/ Next
    \/ \E whole \in 0..NRows, fields \in 1..5 : KillTorn(whole, fields)

SpecTorn == Init /\ [][NextTorn]_vars

\* the runs of Spec and those in which the service returns a confidence
\* outside 0..1
NextAnyConfidence ==
    \/ Next
    \/ \E reply \in RangeReplies : Attempt(reply)

SpecAnyConfidence == Init /\ [][NextAnyConfidence]_vars

\* the runs of the pipeline for every name of the output file
InitAnyPath == Start(DataFrames, OutputNames)

SpecAnyPath == InitAnyPath /\ [][Next]_vars

\* the runs of the pipeline on the inputs of TextFrames
InitTexts == Start(TextFrames, {DefaultName})

SpecTexts == InitTexts /\ [][Next]_vars

TypeOK ==
    /\ pc \in Running \cup Stopped
    /\ i \in 0..NRows
    /\ attempt \in 0..MaxAttempts
    /\ wait \in {0} \cup {2 ^ k : k \in 0..(MaxAttempts - 1)}
    /\ output_name \in OutputNames
    /\ unusable \in BOOLEAN
    /\ done_ids \subseteq 0..(11 * NRows)
    /\ runs \in 0..MaxRuns

\* ----------------------------------------------------------- properties
\* the input row ids
RowIds == RowIdsOf_df(df)

\* number of data lines of the sequence that carry row id id
CountId(lines, id) ==
    Cardinality({k \in 1..Len(lines) : lines[k].kind = "row" /\ lines[k].row_id = id})

\* what the output file will hold once f is flushed
Written == disk.lines \o buf

\* the run in progress started on an absent or empty output file
CleanStart == startDisk.lines = <<>>

\* C1: after a run that reaches its end and was started on an absent or
\* empty output file, the output file holds exactly one row for every input
\* row id and no row for any other id.
C1_OneRowPerInput ==
    (pc = "done" /\ CleanStart) =>
        /\ \A id \in RowIds : CountId(disk.lines, id) = 1
        /\ RowIdsOf(disk.lines) \subseteq RowIds

\* a clean complete run that mixed a prefilter-negative and an exhausted row
C1_Witness ==
    /\ pc = "done"
    /\ CleanStart
    /\ exhausted # {}
    /\ \E k \in 1..Len(disk.lines) : disk.lines[k].reason = "keyword prefilter negative"

\* C2: a run started right after a completed run on the same input and
\* output file makes no API call, appends no row and leaves every line of
\* the output file as it was.
C2_Idempotent ==
    (prevDone /\ pc \in Running \cup {"done", "interrupted", "killed"}) =>
        /\ called = {}
        /\ entered = {}
        /\ wrote = {}
        /\ buf = <<>>
        /\ disk = startDisk

\* a second run that reached its end on a file holding both rows
C2_Witness ==
    /\ prevDone
    /\ pc = "done"
    /\ Len(df) = NRows
    /\ Len(disk.lines) = NRows + 1

\* C3: a run restarted after an interruption processes only the rows that
\* no earlier run committed, and once it reaches its end the output file
\* holds one row per input row id, as after one uninterrupted run.
C3_Resumption ==
    /\ \A id \in committed : id \notin entered /\ id \notin called /\ id \notin wrote
    /\ pc = "done" => \A id \in RowIds : CountId(disk.lines, id) = 1

\* C4: a run does nothing for a row id its scan found done, and a row id
\* that was committed is never taken up again, neither later in the same run
\* nor in a later run.
C4_NoReentry ==
    /\ \A id \in done_ids : id \notin entered /\ id \notin called /\ id \notin wrote
    /\ \A id \in wrote : id < i
    /\ \A id \in committed : id \notin entered

\* the stops after which every line written so far is in the file
Flushed == {"done", "error", "interrupted"}

\* C5: every record that is not done and fails the prefilter is committed
\* with label not_elderly and confidence 0.3, and no API call is made for it.
C5_PrefilterNegative ==
    (pc \in Running \cup Flushed) =>
        \A id \in negative :
                /\ id \notin called
                /\ IF id = i
                   THEN pc = "commit" =>
                            (out.row_id = id /\ out.label = "not_elderly" /\ out.confidence = 30)
                   ELSE \E k \in 1..Len(Written) :
                            /\ Written[k].kind = "row"
                            /\ Written[k].row_id = id
                            /\ Written[k].label = "not_elderly"
                            /\ Written[k].confidence = 30

\* the loop has moved past a prefilter-negative record it wrote a row for
C5_Witness ==
    /\ pc = "loop"
    /\ \E id \in wrote : id \in negative /\ id < i /\ id \notin called

\* C6: when every attempt for a record fails the run does not abort: the
\* record is committed as uncertain with confidence 0.0 and the reason
\* "API failed", and every following record of the input is processed.
C6_ExhaustedIsCommitted ==
    /\ exhausted # {} => pc \in Running \cup {"done", "interrupted", "killed"}
    /\ (pc \in Running \cup Flushed) =>
           \A id \in exhausted :
               IF id = i
               THEN pc = "commit" =>
                        /\ out.row_id = id
                        /\ out.label = "uncertain"
                        /\ out.confidence = 0
                        /\ out.reason = "API failed"
               ELSE \E k \in 1..Len(Written) :
                        /\ Written[k].kind = "row"
                        /\ Written[k].row_id = id
                        /\ Written[k].label = "uncertain"
                        /\ Written[k].confidence = 0
                        /\ Written[k].reason = "API failed"
    /\ (pc \in {"subset", "done"}) => (RowIds \ done_ids) \subseteq wrote

\* a run reached its end although the attempts for its first record all
\* failed, and it wrote a row for the record after it
C6_Witness ==
    /\ pc = "done"
    /\ 0 \in exhausted
    /\ 1 \in wrote

\* C7: a record whose call fails k times and then succeeds (k <= 4) costs
\* exactly k+1 API calls and the row built from the successful reply is the
\* row written; a record whose calls all fail costs exactly 5 calls; no
\* record costs more than 5.
C7_AttemptCount ==
    [][ /\ calls' <= 5
        /\ (pc' = "commit" /\ how' = "parsed") =>
               /\ calls' = nfail' + 1
               /\ nfail' <= 4
               /\ Usable(lastReply')
               /\ out' = ParsedRow(i', lastReply', PyStr(Row(df, i').title), PyStr(Row(df, i').content))
        /\ (pc' = "commit" /\ how' = "exhausted") => (calls' = 5 /\ nfail' = 5)
        /\ (pc = "commit" /\ pc' = "loop") =>
               (Written' # <<>> /\ Written'[Len(Written')] = out)
      ]_vars

\* four failures, then the fifth call succeeded
C7_Witness ==
    /\ pc = "commit"
    /\ how = "parsed"
    /\ nfail = 4
    /\ calls = 5

\* indices of the rows of the frame that pass the selection
SelectedIndices(rows, threshold) ==
    {k \in 1..Len(rows) : rows[k].label = "elderly" /\ rows[k].confidence >= threshold}

\* C8: at the end of a completed run the subset file holds exactly the rows
\* of the output file with label elderly and confidence >= threshold (equal
\* included), whatever runs built the output file and whatever the subset
\* file held before.
C8_SubsetIsSelection ==
    (pc = "done") =>
        /\ subset.exists
        /\ ReadCsvOk(subset.lines)
        /\ ReadCsvOk(disk.lines)
        /\ LET full == ReadCsv(disk.lines)
               sub == ReadCsv(subset.lines)
           IN  /\ \A k \in SelectedIndices(full, min_conf) : \E m \in 1..Len(sub) : sub[m] = full[k]
               /\ \A m \in 1..Len(sub) : \E k \in SelectedIndices(full, min_conf) : sub[m] = full[k]
               /\ Len(sub) = Cardinality(SelectedIndices(full, min_conf))

\* the output file was built by an interrupted run and the run that resumed
\* it; one elderly row sits exactly on the threshold and is in the subset,
\* another lies below it and is not
C8_Witness ==
    /\ pc = "done"
    /\ committed # {}
    /\ wrote # {}
    /\ Len(subset.lines) = 2
    /\ subset.lines[2].confidence = min_conf
    /\ \E k \in 1..Len(disk.lines) :
           disk.lines[k].label = "elderly" /\ disk.lines[k].confidence < min_conf

\* C9: with the credential missing or the title/content columns absent, the
\* run stops before any record is processed: no prefilter evaluation, no API
\* call, and both files are left as they were (not created, not modified).
C9_FatalBeforeAnyRow ==
    (runs > 0 /\ (~api_key \/ ~has_cols)) =>
        /\ pc = "fatal"
        /\ entered = {}
        /\ called = {}
        /\ wrote = {}
        /\ buf = <<>>
        /\ disk = startDisk
        /\ subset = startSubset

\* the columns are missing and neither file exists after the run
C9_Witness ==
    /\ pc = "fatal"
    /\ api_key
    /\ ~has_cols
    /\ ~disk.exists
    /\ ~subset.exists

\* C10: at every point of a run, and after the process is killed, every
\* record whose writerow has returned in this run has its row in the output
\* file as another reader sees it.
C10_CommitIsDurable ==
    (pc \in Running \cup {"killed"}) =>
        \A id \in wrote : CountId(disk.lines, id) >= 1

\* C11: the scan puts a row id in done_ids only if the file held the whole
\* record of that row when it was scanned; a last line cut short by the
\* death of the process never makes its row id count as done.
C11_ScanNeedsWholeRecord ==
    (pc \in Running) =>
        \A id \in done_ids :
            \E k \in 1..Len(startDisk.lines) :
                startDisk.lines[k].kind = "row" /\ startDisk.lines[k].row_id = id

\* number of header lines of the sequence
HeaderCount(lines) == Cardinality({k \in 1..Len(lines) : lines[k].kind = "header"})

\* the sequence holds a data line
HasRow(lines) == \E k \in 1..Len(lines) : lines[k].kind = "row"

\* C12: whatever runs built it (complete, with nothing left to do, stopped
\* between two rows and resumed), the output file that holds a row holds the
\* header exactly once, as its first line; a run started on a file that is
\* not empty writes no header.
C12_HeaderOnce ==
    /\ HasRow(disk.lines) => (Head(disk.lines).kind = "header" /\ HeaderCount(disk.lines) = 1)
    /\ HasRow(Written) => (Head(Written).kind = "header" /\ HeaderCount(Written) = 1)
    /\ startDisk.lines # <<>> => HeaderCount(Written) = HeaderCount(startDisk.lines)

\* a run resumed on a file that held the header and a row has added a row
\* and reached its end
C12_Witness ==
    /\ pc = "done"
    /\ HasRow(startDisk.lines)
    /\ wrote # {}
    /\ Len(disk.lines) = Len(startDisk.lines) + 1

\* the first sequence is the beginning of the second
IsPrefix(a, b) == Len(a) <= Len(b) /\ SubSeq(b, 1, Len(a)) = a

\* C13: the output file only grows: no step of a run, the writing of the
\* subset included, removes or changes a line the file holds, whatever name
\* the output path has.
C13_AppendOnly == [][IsPrefix(disk.lines, disk'.lines)]_vars

\* the lines the current run has added to the output file
Added == SubSeq(Written, Len(startDisk.lines) + 1, Len(Written))

\* C14: the rows a run adds to the output file are in the order of the
\* input, and an API call is made for a record only when every record
\* before it that was not done at the start of the run has been written.
C14_SourceOrder ==
    /\ \A k, m \in 1..Len(Added) :
           (k < m /\ Added[k].kind = "row" /\ Added[m].kind = "row")
               => Added[k].row_id < Added[m].row_id
    /\ \A b \in called : \A a \in RowIds : (a < b /\ a \notin done_ids) => a \in wrote

\* a run wrote the rows of two records, the second after an API call
C14_Witness ==
    /\ pc = "subset"
    /\ wrote = {0, 1}
    /\ 1 \in called
    /\ Len(Added) = 3
    /\ Added[2].row_id = 0
    /\ Added[3].row_id = 1

\* the row the sequence holds for row id id has this label, confidence and
\* reason
HoldsRow(lines, id, label, confidence, reason) ==
    \E k \in 1..Len(lines) :
        /\ lines[k].kind = "row"
        /\ lines[k].row_id = id
        /\ lines[k].label = label
        /\ lines[k].confidence = confidence
        /\ lines[k].reason = reason

\* the record of the example: car trouble / my car broke down
IsCarTrouble(id) ==
    Row(df, id) = [title |-> "car trouble", content |-> "my car broke down"]

\* the row built, then written, for every record the prefilter rejected in
\* this run, and for the car trouble record, has label not_elderly,
\* confidence 0.3 and the given reason
NegativeReasonIs(reason) ==
    (pc \in Running \cup Flushed) =>
        \A id \in entered :
            /\ IsCarTrouble(id) => id \in negative
            /\ id \in negative =>
                   /\ (id = i /\ pc = "commit") =>
                          (out.label = "not_elderly" /\ out.confidence = 30 /\ out.reason = reason)
                   /\ id \in wrote => HoldsRow(Written, id, "not_elderly", 30, reason)

\* C15 as stated: the row committed for a record the prefilter rejects, such
\* as car trouble / my car broke down, is not_elderly, 0.3, with the reason
\* "heuristic negative".
C15_ReasonHeuristicNegative == NegativeReasonIs("heuristic negative")

\* C15 amended: the row committed for a record the prefilter rejects, such
\* as car trouble / my car broke down, is not_elderly, 0.3, with the reason
\* "keyword prefilter negative".
C15_ReasonKeywordPrefilterNegative == NegativeReasonIs("keyword prefilter negative")

\* the row of the car trouble record is in the file at the end of a run
C15_Witness ==
    /\ pc = "done"
    /\ \E id \in wrote :
           /\ IsCarTrouble(id)
           /\ id \in negative
           /\ HoldsRow(disk.lines, id, "not_elderly", 30, "keyword prefilter negative")

\* the text of input record id, as line 200 builds it
TextOfRecord(id) == TextOf(PyStr(Row(df, id).title), PyStr(Row(df, id).content))

Digits == {"0", "1", "2", "3", "4", "5", "6", "7", "8", "9"}

\* the text holds NN-year-old with NN in 60..99
HasAgeYearOld(s) ==
    \E p \in 1..Len(s) :
        /\ s[p] \in {"6", "7", "8", "9"}
        /\ p + 1 <= Len(s)
        /\ s[p + 1] \in Digits
        /\ LitAt(s, p + 2, <<"-", "y", "e", "a", "r", "-", "o", "l", "d">>)

\* the text holds NN U+5C81 with NN in 60..99, with or without a space
HasAgeCJK(s) ==
    \E p \in 1..Len(s) :
        /\ s[p] \in {"6", "7", "8", "9"}
        /\ p + 1 <= Len(s)
        /\ s[p + 1] \in Digits
        /\ LitAt(s, p + 2, <<"U+5C81">>) \/ LitAt(s, p + 2, <<" ", "U+5C81">>)

\* a keyword of one of the two hint lists occurs in the text
HasKeyword(s) ==
    \/ \E k \in 1..Len(EN_HINTS) : Contains(lower(s), EN_HINTS[k])
    \/ \E k \in 1..Len(CN_HINTS) : Contains(s, CN_HINTS[k])

\* C16: the prefilter is true for every text with an age NN-year-old or
\* NN U+5C81, NN in 60..99, with or without a keyword, and false only for a
\* text with no keyword and no such age.
C16_AgePatternHits ==
    \A id \in entered :
        LET text == TextOfRecord(id) IN
        /\ (HasAgeYearOld(lower(text)) \/ HasAgeCJK(text)) => id \notin negative
        /\ id \in negative => ~HasKeyword(text)

\* C17: a record titled "My grandmother, 82" passes the prefilter, so that
\* the classifier is called for it, and the row built from a usable reply
\* carries the reply's label, confidence and reason.
C17_GrandmotherIsClassified ==
    \A id \in entered :
        Row(df, id).title = "My grandmother, 82" =>
            /\ id \notin negative
            /\ pc = "commit" => (id \in called /\ how \in {"parsed", "exhausted"})
            /\ (pc = "commit" /\ how = "parsed") =>
                   /\ out.label = lastReply.label
                   /\ out.confidence = lastReply.confidence.n
                   /\ out.reason = lastReply.reason

\* C18: after the failure of attempt k (counted from 0) the pipeline waits
\* 2^k; a wait only follows a failed attempt, and every wait that ends is
\* followed by a further attempt for the same record.
C18_EveryWaitIsFollowedByRetry ==
    [][ /\ (pc = "call" /\ pc' = "sleep") => (wait' = 2 ^ attempt /\ nfail' = nfail + 1)
        /\ (pc' = "sleep") => (pc = "call" /\ i' = i)
        /\ (pc = "sleep" /\ pc' \in Running) => (pc' = "call" /\ i' = i /\ attempt' = attempt + 1)
      ]_vars

\* the last line of the sequence
Last(lines) == lines[Len(lines)]

\* the reply's message content is a JSON object whose confidence, if it has
\* one, is a number
IsObjectReply(reply) ==
    reply.kind = "object" /\ reply.confidence.t \in {"num", "numstr", "absent"}

\* C19: for a reply whose content is a JSON object the row built, then
\* written, has the reply's label, confidence and reason: 0 for a missing
\* confidence, the empty text for a missing reason, the label as received
\* also when it is none of elderly, not_elderly, uncertain; the reply is
\* not retried.
C19_ObjectReplyTakenAsIs ==
    [][ /\ \A reply \in Replies :
               (Attempt(reply) /\ IsObjectReply(reply)) =>
                   /\ pc' = "commit"
                   /\ nfail' = nfail
                   /\ out'.row_id = i
                   /\ reply.label # Absent => out'.label = reply.label
                   /\ out'.confidence =
                          (IF reply.confidence.t = "absent" THEN 0 ELSE reply.confidence.n)
                   /\ out'.reason = (IF reply.reason = Absent THEN "" ELSE reply.reason)
        /\ (pc = "commit" /\ how = "parsed" /\ pc' = "loop") =>
               (Written' # <<>> /\ Last(Written') = out)
      ]_vars

\* the file holds a row with a label outside the three values and a row
\* built from a reply without confidence and reason
C19_Witness ==
    /\ pc = "done"
    /\ \E k \in 1..Len(disk.lines) : disk.lines[k].label = "maybe" /\ disk.lines[k].confidence = 92
    /\ \E k \in 1..Len(disk.lines) : disk.lines[k].reason = "" /\ disk.lines[k].confidence = 0

\* the reply arrived and cannot be used: body or content not JSON, no first
\* choice, content not an object, confidence not a number
IsUnusableReply(reply) ==
    \/ reply.kind \in {"body_not_json", "no_choices", "content_not_json", "content_not_object"}
    \/ reply.kind = "object" /\ reply.confidence.t = "str"

\* C20: a reply that cannot be used is handled as a network failure is:
\* nothing is built or written for the attempt, the attempt counts toward
\* the 5, the run goes on to the wait and from there to the next attempt or
\* the API failed row; the run is not ended and no row is built from such a
\* reply.
C20_UnusableReplyIsRetried ==
    [][ /\ \A reply \in Replies :
               (Attempt(reply) /\ IsUnusableReply(reply)) =>
                   /\ pc' = "sleep"
                   /\ wait' = 2 ^ attempt
                   /\ calls' = calls + 1
                   /\ nfail' = nfail + 1
                   /\ calls' <= MaxAttempts
                   /\ out' = out
                   /\ wrote' = wrote
                   /\ Written' = Written
        /\ (pc = "sleep" /\ pc' \in Running) =>
               \/ pc' = "call" /\ i' = i /\ attempt' < MaxAttempts
               \/ pc' = "commit" /\ out' = ApiFailedRow(i, PyStr(Row(df, i).title), PyStr(Row(df, i).content))
        /\ pc' = "error" => pc = "subset"
      ]_vars

\* after a reply that could not be used the record was retried and the row
\* of a usable reply built
C20_Witness ==
    /\ pc = "commit"
    /\ how = "parsed"
    /\ unusable
    /\ nfail = 1
    /\ calls = 2

\* C21: every data row of the output file has a confidence within 0..1,
\* whatever confidence the service returned.
C21_ConfidenceInUnitInterval ==
    \A k \in 1..Len(disk.lines) :
        disk.lines[k].kind = "row" =>
            (disk.lines[k].confidence >= 0 /\ disk.lines[k].confidence <= 100)

\* C22: a run that is not stopped from outside reaches its end and writes
\* the subset: it never stops on an exception of its own, and while it runs
\* its next step is always possible; it makes at most 5 API calls for a
\* record, and only for records that were not done and passed the prefilter.
C22_RunReachesItsEnd ==
    /\ pc # "error"
    /\ pc = "done" => subset.exists
    /\ pc \in Running =>
           ENABLED (\/ LoopNext
                    \/ \E reply \in Replies : Attempt(reply)
                    \/ Backoff
                    \/ \E spill \in 0..(NRows + 1) : WriteRow(spill)
                    \/ \E threshold \in MinConfs : WriteSubset(threshold))
    /\ calls <= MaxAttempts
    /\ \A id \in called : id \notin done_ids /\ id \notin negative /\ id \in entered

\* C23: a run started on a file whose last line was cut short by the death
\* of the process leaves the file well formed: at its end every row it
\* wrote is a line of its own, after the lines the file had, no line has
\* fields of two rows, and every input record, the one of the cut line
\* included, has exactly one whole row.
C23_ResumeAfterTornLine ==
    (EndsTorn(startDisk.lines) /\ pc = "done") =>
        /\ Len(disk.lines) = Len(startDisk.lines) + Cardinality(wrote)
        /\ \A k \in 1..Len(disk.lines) : disk.lines[k].kind # "glued"
        /\ \A id \in wrote : CountId(disk.lines, id) = 1
        /\ \A id \in RowIds : CountId(disk.lines, id) = 1

\* C24: a run over an input of zero records, started without an output
\* file and not stopped from outside, ends without error: it calls nothing,
\* writes no row, leaves an empty output file and writes a subset file with
\* no data row.
C24_EmptyInputCompletes ==
    (/\ Len(df) = 0
     /\ runs >= 1
     /\ api_key
     /\ has_cols
     /\ ~startDisk.exists
     /\ pc \in Stopped \ {"interrupted", "killed"}) =>
        /\ pc = "done"
        /\ called = {}
        /\ wrote = {}
        /\ disk = [exists |-> TRUE, lines |-> <<>>]
        /\ subset.exists
        /\ ~HasRow(subset.lines)

====
